---- MODULE Spec2Model ----
(***************************************************************************)
(* A model of gochal2 (src/main.go): secureReader / secureWriter, the      *)
(* secureReadWriter that composes them, the public-key handshake of Dial   *)
(* and handleConnection, and Serve's accept loop.                          *)
(*                                                                         *)
(* Bytes are integers 0..255.  A transport direction is a sequence of      *)
(* segments, one per accepted Write; a transport Read hands out bytes of   *)
(* the head segment only (io.Pipe, and TCP when every write arrives as     *)
(* one segment) unless the transport is `chunked`, where it may hand out   *)
(* any non-empty prefix of what is in flight.                              *)
(*                                                                         *)
(* golang.org/x/crypto/nacl/box is modelled by a small construction of the *)
(* same shape: Diffie-Hellman in a prime-order-ish group for Precompute,   *)
(* a keystream added to the plaintext and a polynomial tag in front of it  *)
(* for Seal, the tag recomputed and compared for Open.                     *)
(***************************************************************************)
EXTENDS Integers, Sequences, FiniteSets, TLC

\* ------------------------------------------------------------ constants

noncesz == 24
keysz == 32
Overhead == 16
SrvBufSz == 2048
ByteMod == 256

\* ------------------------------------------------------------ bounds

\* longest plaintext an application writes, largest buffer it reads into
MaxLen == 2
\* application calls (Write, Read, Close) one client makes on its channel
MaxOps == 4
\* Write and Read calls the harness makes on one writer-reader pair
MaxCalls == 4
\* the same, when the sink or the random source may fail once
MaxFaultCalls == 2
\* the same, on a transport that splits and merges what was written
MaxChunkCalls == 3

\* the text plaintexts are cut from ("hi!\n")
Text == <<104, 105, 33, 10>>
\* first byte of the nonces the random source hands out
NonceSeeds == {81, 200}
\* first byte of the nonces drawn on a connection
ConnSeeds == {200}
\* private keys the random source hands out
PrivKeys == {3, 7}
\* the key material the reader/writer harness is constructed with
TestPrivs == {3}
TestPubs == {5, 9}
TestWriterPubs == {5}
\* accepted connections of one Serve call
ConnIds == {1, 2}

\* ------------------------------------------------------------ helpers

Min(a, b) == IF a < b THEN a ELSE b

\* the plaintexts written: the first k bytes of the text, repeated as needed
PlainOf(k) == [i \in 1..k |-> Text[((i - 1) % Len(Text)) + 1]]
Plain == {PlainOf(k) : k \in 0..MaxLen}

\* the plaintexts a client writes to its channel: nothing, a short message, a
\* long one
AppPlain == {PlainOf(0), PlainOf(1), PlainOf(MaxLen)}

Caps == 0..MaxLen

\* the buffers a client reads its channel into: none, or one that holds any echo
AppCaps == {0, MaxLen}

RECURSIVE Flatten(_)
Flatten(s) == IF s = <<>> THEN <<>> ELSE Head(s) \o Flatten(Tail(s))

RECURSIVE TotalLen(_)
TotalLen(s) == IF s = <<>> THEN 0 ELSE Len(Head(s)) + TotalLen(Tail(s))

\* the first n bytes in flight
TakeN(s, n) == SubSeq(Flatten(s), 1, n)

\* the stream after n bytes were read from it; segment boundaries are kept
RECURSIVE DropN(_, _)
DropN(s, n) ==
    IF n = 0 \/ s = <<>> THEN s
    ELSE IF Len(Head(s)) <= n THEN DropN(Tail(s), n - Len(Head(s)))
    ELSE <<SubSeq(Head(s), n + 1, Len(Head(s)))>> \o Tail(s)

\* the stream after a Write put `bytes` on it (an empty write leaves no segment)
Put(s, bytes) == IF bytes = <<>> THEN s ELSE Append(s, bytes)

\* does `w` hold `p` as a contiguous run of bytes
Contains(w, p) ==
    \E i \in 0..(Len(w) - Len(p)) : SubSeq(w, i + 1, i + Len(p)) = p

\* ------------------------------------------------------------ nacl/box

GroupP == 23
GroupG == 5
TagP == 251

RECURSIVE PowMod(_, _, _)
PowMod(b, e, m) == IF e = 0 THEN 1 % m ELSE (b * PowMod(b, e - 1, m)) % m

\* box.GenerateKey: the public key of a private key
PubOf(priv) == PowMod(GroupG, priv, GroupP)

PrecomputeOwnPub(pub, priv) == PowMod(PowMod(GroupG, priv, GroupP), priv, GroupP)

\* box.Precompute(&key, pub, priv): the shared key
Precompute(pub, priv) == PowMod(pub, priv, GroupP)

KeyBytesShifted(k) == [i \in 1..keysz |-> IF i = 2 THEN k % ByteMod ELSE 0]

\* a key as the keysz bytes that travel (little endian)
KeyBytes(k) == [i \in 1..keysz |-> IF i = 1 THEN k % ByteMod ELSE 0]

\* the key that keysz received bytes stand for
RECURSIVE BytesKeyFrom(_, _)
BytesKeyFrom(b, i) ==
    IF i > Len(b) THEN 0 ELSE (b[i] + (ByteMod * BytesKeyFrom(b, i + 1))) % GroupP
BytesKey(b) == BytesKeyFrom(b, 1)

\* rand.Read(nonce[:]): the nonce the random source draws for a seed
NonceOf(seed) == [i \in 1..noncesz |-> (seed + i - 1) % ByteMod]

Nonces == {NonceOf(s) : s \in NonceSeeds}

KeyStream(key, nonce, i) ==
    ((key * 13) + (nonce[1] * 7) + nonce[noncesz] + (i * 5) + 1) % ByteMod

RECURSIVE Poly(_, _, _)
Poly(c, r, i) ==
    IF i > Len(c) THEN PowMod(r, i, TagP)
    ELSE ((c[i] * PowMod(r, i, TagP)) + Poly(c, r, i + 1)) % TagP

\* the authentication tag of ciphertext c: a polynomial in c, keyed by key and nonce
Tag(c, nonce, key) ==
    LET r == 2 + ((key * 7 + nonce[1]) % (TagP - 2))
        s == ((key * 3) + nonce[2]) % TagP
        t == (Poly(c, r, 1) + s) % TagP
    IN  [i \in 1..Overhead |-> ((t * i) + s) % ByteMod]

SealZeroNonce(p, nonce, key) ==
    LET z == [i \in 1..noncesz |-> 0]
        c == [i \in 1..Len(p) |-> (p[i] + KeyStream(key, z, i)) % ByteMod]
    IN  Tag(c, z, key) \o c

\* box.SealAfterPrecomputation(nil, p, &nonce, key): tag, then the encrypted bytes
Seal(p, nonce, key) ==
    LET c == [i \in 1..Len(p) |-> (p[i] + KeyStream(key, nonce, i)) % ByteMod]
    IN  Tag(c, nonce, key) \o c

OpenUnchecked(b, nonce, key) ==
    LET c == SubSeq(b, Overhead + 1, Len(b))
    IN  [ok |-> TRUE,
         data |-> [i \in 1..Len(c) |->
                    ((c[i] + ByteMod) - KeyStream(key, nonce, i)) % ByteMod]]

\* box.OpenAfterPrecomputation(nil, b, &nonce, key): (decrypted, ok)
Open(b, nonce, key) ==
    IF Len(b) < Overhead THEN [ok |-> FALSE, data |-> <<>>]
    ELSE LET c == SubSeq(b, Overhead + 1, Len(b))
         IN  IF SubSeq(b, 1, Overhead) # Tag(c, nonce, key)
             THEN [ok |-> FALSE, data |-> <<>>]
             ELSE [ok |-> TRUE,
                   data |-> [i \in 1..Len(c) |->
                              ((c[i] + ByteMod) - KeyStream(key, nonce, i)) % ByteMod]]

\* ------------------------------------------------------------ transport

\* what one transport Write of L bytes may report: all of it ...
Full(L) == [n |-> L, err |-> "nil"]

\* ... or fewer bytes, or an error, or both (the counts around 0, Overhead and L)
Faulty(L) ==
    {[n |-> k, err |-> e] :
        k \in {0, 1, Overhead - 1, Overhead, Overhead + 1, L - 1, L} \cap 0..L,
        e \in {"nil", "ErrIO"}} \ {Full(L)}

ReadSizesNoOverhead(s, max, chunky) ==
    IF chunky THEN 1..Min(max - Overhead, TotalLen(s))
    ELSE {Min(max - Overhead, Len(Head(s)))}

\* how many bytes one transport Read into a buffer of `max` bytes may return
\* when bytes are in flight
ReadSizes(s, max, chunky) ==
    IF chunky THEN 1..Min(max, TotalLen(s)) ELSE {Min(max, Len(Head(s)))}

\* ------------------------------------------------------------ secureWriter

\* the count Write returns for n ciphertext bytes the sink took
WriteCount(n) == IF n > Overhead THEN n - Overhead ELSE n

FrameCiphertextClear(p, nonce, key) == Tag(p, nonce, key) \o p

\* what Write hands to the sink after the nonce
FrameCiphertext(p, nonce, key) == Seal(p, nonce, key)

\* secureWriter.Write(p) under key, with rand.Read reporting rnd and the sink
\* reporting o1 for the nonce and o2 for the ciphertext:
\* the (n, err) returned and the segments the sink took (out)
SWrite(p, key, rnd, o1, o2) ==
    IF Len(p) = 0 THEN [n |-> 0, err |-> "nil", out |-> <<>>]
    ELSE IF rnd.err # "nil" THEN [n |-> 0, err |-> "ErrRand", out |-> <<>>]
    ELSE IF o1.err # "nil"
         THEN [n |-> o1.n, err |-> o1.err, out |-> Put(<<>>, SubSeq(rnd.nonce, 1, o1.n))]
    ELSE IF o1.n # noncesz
         THEN [n |-> 0, err |-> "ErrShortNonce", out |-> Put(<<>>, SubSeq(rnd.nonce, 1, o1.n))]
    ELSE LET encrptd == FrameCiphertext(p, rnd.nonce, key)
         IN  [n |-> WriteCount(o2.n), err |-> o2.err,
              out |-> Put(<<rnd.nonce>>, SubSeq(encrptd, 1, o2.n))]

\* the (rnd, o1, o2) a Write of p can meet: no fault, or (when one may be
\* injected) exactly one of: the random source fails, the nonce write is
\* faulty, the ciphertext write is faulty
WriteEnv(p, seed, mayFault) ==
    LET L2 == Len(p) + Overhead
        okr == [err |-> "nil", nonce |-> NonceOf(seed)]
    IN  {<<okr, Full(noncesz), Full(L2)>>}
        \cup (IF mayFault /\ Len(p) > 0
              THEN {<<[err |-> "ErrRand", nonce |-> NonceOf(seed)], Full(noncesz), Full(L2)>>}
                   \cup {<<okr, o, Full(L2)>> : o \in Faulty(noncesz)}
                   \cup {<<okr, Full(noncesz), o>> : o \in Faulty(L2)}
              ELSE {})

\* the environment of a Write on a transport that refuses every byte with e
Refused(seed, e) ==
    <<[err |-> "nil", nonce |-> NonceOf(seed)], [n |-> 0, err |-> e], [n |-> 0, err |-> e]>>

\* was a failure injected (rather than the transport being closed)
IsFault(env, p) ==
    /\ env # <<env[1], Full(noncesz), Full(Len(p) + Overhead)>> \/ env[1].err # "nil"
    /\ env[2].err \notin {"ErrClosed", "ErrClosedPipe", "EPIPE"}

\* what one Write of L bytes on a connection may report
XWrite(L, localClosed, peerClosed, mayFault) ==
    IF localClosed THEN {[n |-> 0, err |-> "ErrClosed"]}
    ELSE {Full(L)}
         \cup (IF peerClosed THEN {[n |-> 0, err |-> "EPIPE"]} ELSE {})
         \cup (IF mayFault THEN Faulty(L) ELSE {})

\* what one Read into max bytes on a connection may report: (n, err, the
\* bytes, the stream left); empty when the Read blocks
XRead(s, eof, max, localClosed, mayFault, chunky) ==
    IF localClosed THEN {[n |-> 0, err |-> "ErrClosed", bytes |-> <<>>, rest |-> s]}
    ELSE (IF s # <<>>
          THEN {[n |-> k, err |-> "nil", bytes |-> TakeN(s, k), rest |-> DropN(s, k)] :
                   k \in ReadSizes(s, max, chunky)}
          ELSE IF eof THEN {[n |-> 0, err |-> "EOF", bytes |-> <<>>, rest |-> s]}
          ELSE {})
         \cup (IF mayFault
               THEN {[n |-> 0, err |-> "ErrIO", bytes |-> <<>>, rest |-> s]}
               ELSE {})

\* the (rnd, o1, o2) a Write of p on a connection can meet
NetWriteEnv(p, seed, localClosed, peerClosed, mayFault) ==
    IF localClosed THEN {Refused(seed, "ErrClosed")}
    ELSE WriteEnv(p, seed, mayFault)
         \cup (IF peerClosed THEN {Refused(seed, "EPIPE")} ELSE {})

\* ------------------------------------------------------------ secureReader

\* secureReader.Read(p) with len(p) = cap under key, on stream s whose writing
\* end is closed iff eof: the set of (n, err, data copied into p, stream left,
\* bytes taken from the stream); empty when the Read blocks
SRead(s, eof, cap, key, chunky) ==
    IF cap = 0 THEN {[n |-> 0, err |-> "nil", data |-> <<>>, rest |-> s, used |-> 0]}
    ELSE IF TotalLen(s) < noncesz
    THEN IF ~eof THEN {}
         ELSE {[n |-> TotalLen(s),
                err |-> IF TotalLen(s) = 0 THEN "EOF" ELSE "ErrUnexpectedEOF",
                data |-> <<>>, rest |-> <<>>, used |-> TotalLen(s)]}
    ELSE LET nonce == TakeN(s, noncesz)
             s1 == DropN(s, noncesz)
         IN  IF s1 = <<>>
             THEN IF ~eof THEN {}
                  ELSE {[n |-> 0, err |-> "EOF", data |-> <<>>, rest |-> s1,
                         used |-> noncesz]}
             ELSE {LET encrptd == TakeN(s1, n)
                       opened == Open(encrptd, nonce, key)
                   IN  IF ~opened.ok
                       THEN [n |-> n, err |-> "ErrDecrypt", data |-> <<>>,
                             rest |-> DropN(s1, n), used |-> noncesz + n]
                       ELSE [n |-> Min(cap, Len(opened.data)), err |-> "nil",
                             data |-> SubSeq(opened.data, 1, Min(cap, Len(opened.data))),
                             rest |-> DropN(s1, n), used |-> noncesz + n]
                   : n \in ReadSizes(s1, cap + Overhead, chunky)}

\* ------------------------------------------------------------ state

VARIABLES
    chunked,     \* does the transport split and merge what was written
    faulted,     \* has the transport (or the random source) failed once
    callsLeft,   \* harness: Write and Read calls still to be made
    rwKeys,      \* harness: [wpriv, wpub, rpriv, rpub] the pair was built from
    sink,        \* harness: the bytes in flight from the writer to the reader
    wire,        \* harness: every byte the sink ever took, in order
    sinkClosed,  \* harness: the writing end was closed
    wlog,        \* harness: the Write calls made, with what they returned
    rlog,        \* harness: the Read calls made, with what they returned
    live,        \* the connections clients may open
    opsLeft,     \* per connection: calls the client may still make on its channel
    serve,       \* Serve: where it is, and the key pair it generated
    cli,         \* per connection: Dial and the client's channel
    srv,         \* per connection: handleConnection
    c2s,         \* per connection: bytes in flight from client to server
    s2c          \* per connection: bytes in flight from server to client

envVars == <<chunked, faulted>>
rwVars == <<callsLeft, rwKeys, sink, wire, sinkClosed, wlog, rlog>>
netVars == <<live, opsLeft, serve, cli, srv, c2s, s2c>>
vars == <<envVars, rwVars, netVars>>

NoKey == -1

\* a client before Dial, a handler before Accept
CliIdle ==
    [pc |-> "idle", priv |-> NoKey, srvpub |-> NoKey, rdN |-> -1, wrN |-> -1,
     rkey |-> NoKey, wkey |-> NoKey, closes |-> 0, err |-> "nil", log |-> <<>>]
SrvIdle ==
    [pc |-> "none", priv |-> NoKey, pub |-> NoKey, clipub |-> NoKey, rdN |-> -1,
     wrN |-> -1, rkey |-> NoKey, wkey |-> NoKey, closes |-> 0, err |-> "nil",
     reads |-> 0, writes |-> 0, n |-> 0, buf |-> <<>>, rderr |-> "none"]

\* the system part of a harness state, the harness part of a system state
NetIdle ==
    /\ live = {}
    /\ opsLeft = [c \in ConnIds |-> 0]
    /\ serve = [pc |-> "start", priv |-> NoKey, pub |-> NoKey]
    /\ cli = [c \in ConnIds |-> CliIdle]
    /\ srv = [c \in ConnIds |-> SrvIdle]
    /\ c2s = [c \in ConnIds |-> <<>>]
    /\ s2c = [c \in ConnIds |-> <<>>]
RWIdle ==
    /\ callsLeft = 0
    /\ rwKeys = [wpriv |-> NoKey, wpub |-> NoKey, rpriv |-> NoKey, rpub |-> NoKey]
    /\ sink = <<>>
    /\ wire = <<>>
    /\ sinkClosed = FALSE
    /\ wlog = <<>>
    /\ rlog = <<>>

\* ------------------------------------------------------------ harness:
\* one secureWriter and one secureReader on the two ends of a pipe

\* NewSecureWriter(w, priv, pub) / NewSecureReader(r, priv, pub): the key each holds
WriterKey == Precompute(rwKeys.wpub, rwKeys.wpriv)
ReaderKey == Precompute(rwKeys.rpub, rwKeys.rpriv)

RWCalls == Len(wlog) + Len(rlog)

RWStart ==
    /\ rwKeys \in [wpriv : TestPrivs, wpub : TestWriterPubs, rpriv : TestPrivs, rpub : TestPubs]
    /\ sink = <<>>
    /\ wire = <<>>
    /\ sinkClosed = FALSE
    /\ wlog = <<>>
    /\ rlog = <<>>

\* a transport that takes every byte, a random source that never fails
RWInit ==
    /\ chunked = FALSE
    /\ faulted = TRUE
    /\ callsLeft = MaxCalls
    /\ RWStart
    /\ NetIdle

\* a sink or random source that may fail once
RWFaultInit ==
    /\ chunked = FALSE
    /\ faulted = FALSE
    /\ callsLeft = MaxFaultCalls
    /\ RWStart
    /\ NetIdle

\* secureW.Write(p)
RWWrite ==
    /\ callsLeft > 0
    /\ callsLeft' = callsLeft - 1
    /\ \E p \in Plain, seed \in NonceSeeds :
         \E env \in (IF sinkClosed THEN {Refused(seed, "ErrClosedPipe")}
                     ELSE WriteEnv(p, seed, ~faulted)) :
            LET res == SWrite(p, WriterKey, env[1], env[2], env[3])
            IN  /\ sink' = sink \o res.out
                /\ wire' = wire \o Flatten(res.out)
                /\ wlog' = Append(wlog, [p |-> p, n |-> res.n,
                                         err |-> res.err, off |-> Len(wire),
                                         sent |-> TotalLen(res.out), at |-> RWCalls + 1,
                                         nonce |-> IF res.out = <<>> THEN <<>>
                                                   ELSE env[1].nonce])
                /\ faulted' = (faulted \/ IsFault(env, p))
    /\ UNCHANGED <<chunked, rwKeys, sinkClosed, rlog, netVars>>

\* secureR.Read(buf) with len(buf) = cap
RWRead ==
    /\ callsLeft > 0
    /\ callsLeft' = callsLeft - 1
    /\ \E cap \in Caps :
         \E res \in SRead(sink, sinkClosed, cap, ReaderKey, chunked) :
            /\ sink' = res.rest
            /\ rlog' = Append(rlog, [cap |-> cap, n |-> res.n, err |-> res.err,
                                     data |-> res.data, used |-> res.used,
                                     at |-> RWCalls + 1])
    /\ UNCHANGED <<chunked, faulted, rwKeys, wire, sinkClosed, wlog, netVars>>

\* w.Close()
RWClose ==
    /\ ~sinkClosed
    /\ sinkClosed' = TRUE
    /\ UNCHANGED <<chunked, faulted, callsLeft, rwKeys, sink, wire, wlog, rlog, netVars>>

RWNext == RWWrite \/ RWRead \/ RWClose

SpecRW == RWInit /\ [][RWNext]_vars

SpecRWFault == RWFaultInit /\ [][RWNext]_vars

\* a byte stream that takes every byte and hands a Read any non-empty part of
\* what is in flight, whatever the Writes that put it there (TCP)
RWChunkedInit ==
    /\ chunked = TRUE
    /\ faulted = TRUE
    /\ callsLeft = MaxChunkCalls
    /\ RWStart
    /\ NetIdle

SpecRWChunked == RWChunkedInit /\ [][RWNext]_vars

\* ------------------------------------------------------------ claims on
\* the writer-reader pair

\* the bytes Write call number i put on the sink
FrameOf(i) == SubSeq(wire, wlog[i].off + 1, wlog[i].off + wlog[i].sent)

FrameLen(p) == noncesz + Len(p) + Overhead

\* C6: the count a Write returns never includes the encryption overhead:
\* once the nonce is on the sink, 0 <= n <= len(p) for every number of
\* ciphertext bytes the sink reports as written, and n = len(p) when the sink
\* took the whole frame.
C6_WriteCountExcludesOverhead ==
    \A i \in DOMAIN wlog :
        (Len(wlog[i].p) > 0 /\ wlog[i].sent >= noncesz) =>
            /\ 0 <= wlog[i].n
            /\ wlog[i].n <= Len(wlog[i].p)
            /\ wlog[i].sent = FrameLen(wlog[i].p) => wlog[i].n = Len(wlog[i].p)

\* C8: a Read reports end-of-stream only when it took no byte of a new frame
\* from the transport; a stream that ends after nonce bytes were taken gives
\* an error that is not end-of-stream.
C8_EOFOnlyBeforeFrame ==
    \A i \in DOMAIN rlog : rlog[i].err = "EOF" => rlog[i].used = 0

\* the harness wrote one non-empty plaintext in full and then read once, into
\* a buffer that holds it, with a reader built from the writer's key material
OneWriteOneRead ==
    /\ Len(wlog) >= 1 /\ Len(rlog) >= 1
    /\ wlog[1].at = 1 /\ rlog[1].at = 2
    /\ Len(wlog[1].p) > 0
    /\ wlog[1].err = "nil"
    /\ rlog[1].cap >= Len(wlog[1].p)
    /\ rwKeys.rpriv = rwKeys.wpriv /\ rwKeys.rpub = rwKeys.wpub

\* C9: one Write(P) of a non-empty P followed by one Read into a buffer of at
\* least len(P) bytes, reader and writer built from the same key material,
\* returns len(P) and the buffer holds exactly P.
C9_WriteThenReadReturnsP ==
    OneWriteOneRead =>
        /\ rlog[1].err = "nil"
        /\ rlog[1].n = Len(wlog[1].p)
        /\ rlog[1].data = wlog[1].p

C9_Witness ==
    /\ OneWriteOneRead
    /\ Len(wlog[1].p) = MaxLen
    /\ rlog[1].data = wlog[1].p

\* C10 as stated: the bytes put on the transport never contain a written
\* plaintext verbatim.
C10_PlaintextNeverOnWire ==
    \A i \in DOMAIN wlog : Len(wlog[i].p) > 0 => ~Contains(wire, wlog[i].p)

\* C10 as amended: what a successful Write of a non-empty P puts on the
\* transport is a nonce of the random source followed by a box of
\* len(P) + Overhead bytes that opens to P under the writer's key and that
\* nonce; it is never P itself.
C10_WireIsNonceThenBox ==
    \A i \in DOMAIN wlog :
        (Len(wlog[i].p) > 0 /\ wlog[i].err = "nil" /\ wlog[i].n = Len(wlog[i].p)) =>
            LET f == FrameOf(i)
            IN  /\ Len(f) = FrameLen(wlog[i].p)
                /\ f # wlog[i].p
                /\ SubSeq(f, 1, noncesz) \in Nonces
                /\ Open(SubSeq(f, noncesz + 1, Len(f)), SubSeq(f, 1, noncesz), WriterKey)
                     = [ok |-> TRUE, data |-> wlog[i].p]

C10_Witness ==
    \E i \in DOMAIN wlog :
        /\ Len(wlog[i].p) = MaxLen
        /\ wlog[i].err = "nil"
        /\ Len(FrameOf(i)) = FrameLen(wlog[i].p)
        /\ ~Contains(wire, wlog[i].p)

\* C14: a Write of a non-empty p whose frame did not reach the sink in full
\* (the sink took fewer bytes than the nonce or than the ciphertext, or
\* reported an error, or the random source failed) returns a non-nil error.
C14_ShortFrameIsAnError ==
    \A i \in DOMAIN wlog :
        (Len(wlog[i].p) > 0 /\ wlog[i].sent < FrameLen(wlog[i].p)) =>
            wlog[i].err # "nil"

\* the bytes the sink took before Write call i: what the earlier calls put on it
RECURSIVE SentBefore(_)
SentBefore(i) == IF i <= 1 THEN 0 ELSE SentBefore(i - 1) + wlog[i - 1].sent

\* C15: a Write of a non-empty p that reports success (len(p), nil) appended
\* exactly one frame to the sink, the nonce it drew and then len(p) + Overhead
\* ciphertext bytes; a Write of an empty p returns (0, nil) and appends
\* nothing; the sink holds the bytes of the calls in order and nothing else.
C15_OneFramePerWrite ==
    /\ Len(wire) = SentBefore(Len(wlog) + 1)
    /\ \A i \in DOMAIN wlog :
          /\ wlog[i].off = SentBefore(i)
          /\ (Len(wlog[i].p) > 0 /\ wlog[i].err = "nil" /\ wlog[i].n = Len(wlog[i].p)) =>
                /\ wlog[i].sent = FrameLen(wlog[i].p)
                /\ SubSeq(FrameOf(i), 1, noncesz) = wlog[i].nonce
          /\ Len(wlog[i].p) = 0 =>
                wlog[i].n = 0 /\ wlog[i].err = "nil" /\ wlog[i].sent = 0

\* the harness wrote a non-empty plaintext and then read once into a non-empty
\* buffer, and what the Read met after the nonce was a box sealed under another
\* key than the reader's, or a box the sink had cut short
MisKeyedOrTruncated ==
    /\ Len(wlog) >= 1 /\ Len(rlog) >= 1
    /\ wlog[1].at = 1 /\ rlog[1].at = 2
    /\ Len(wlog[1].p) > 0 /\ rlog[1].cap > 0
    /\ wlog[1].sent > noncesz
    /\ ReaderKey # WriterKey \/ wlog[1].sent < FrameLen(wlog[1].p)

\* C16: a Read that fails to decrypt returns an error and copies nothing into
\* the caller's buffer; a Read that meets a mis-keyed or truncated box is such
\* a Read.
C16_DecryptFailureReleasesNothing ==
    /\ \A j \in DOMAIN rlog :
          rlog[j].err = "ErrDecrypt" =>
              rlog[j].data = <<>> /\ rlog[j].used > noncesz
    /\ MisKeyedOrTruncated =>
          rlog[1].err = "ErrDecrypt" /\ rlog[1].data = <<>>

\* a box under the reader's key that lost its last byte on the way to the sink
C16_Witness ==
    /\ MisKeyedOrTruncated
    /\ rlog[1].err = "ErrDecrypt"
    /\ ReaderKey = WriterKey
    /\ wlog[1].sent = FrameLen(wlog[1].p) - 1
    /\ Len(wlog[1].p) = MaxLen

\* the harness wrote one non-empty plaintext in full and then read once, into
\* a non-empty buffer smaller than the plaintext, with the writer's key
SmallBufferRead ==
    /\ Len(wlog) >= 1 /\ Len(rlog) >= 1
    /\ wlog[1].at = 1 /\ rlog[1].at = 2
    /\ wlog[1].err = "nil" /\ wlog[1].sent = FrameLen(wlog[1].p)
    /\ rlog[1].cap > 0 /\ rlog[1].cap < Len(wlog[1].p)
    /\ ReaderKey = WriterKey

\* C17: a Read into a buffer smaller than the plaintext of the next frame
\* copies the first len(buffer) plaintext bytes, returns that count and no
\* error, and takes the whole frame from the stream, so that the next Read
\* starts at the next frame's nonce.
C17_SmallBufferGetsPrefix ==
    SmallBufferRead =>
        /\ rlog[1].err = "nil"
        /\ rlog[1].n = rlog[1].cap
        /\ rlog[1].data = SubSeq(wlog[1].p, 1, rlog[1].cap)
        /\ rlog[1].used = FrameLen(wlog[1].p)

\* the harness first made k >= 2 Writes of non-empty plaintexts, all in full,
\* with the reader's key, and only then began to read
BackToBack(k) ==
    /\ k >= 2 /\ Len(wlog) >= k
    /\ \A i \in 1..k : /\ wlog[i].at = i
                        /\ Len(wlog[i].p) > 0
                        /\ wlog[i].err = "nil" /\ wlog[i].sent = FrameLen(wlog[i].p)
    /\ \A j \in DOMAIN rlog : rlog[j].at > k
    /\ ReaderKey = WriterKey

\* C18: after k >= 2 frames written back to back, the Reads that follow, each
\* into a buffer at least as large as the plaintext of its frame, return the
\* plaintexts in the order written, however the transport splits or merges
\* the bytes.
C18_BackToBackFramesInOrder ==
    \A k \in 2..MaxChunkCalls :
        BackToBack(k) =>
            \A j \in 1..k :
                (/\ j \in DOMAIN rlog
                 /\ \A h \in 1..j : rlog[h].cap >= Len(wlog[h].p)) =>
                    /\ rlog[j].err = "nil"
                    /\ rlog[j].n = Len(wlog[j].p)
                    /\ rlog[j].data = wlog[j].p

\* Write calls i < j that both put a whole frame for the same non-empty
\* plaintext on the sink (one writer, so one shared key)
SamePlainTwice(i, j) ==
    /\ i < j
    /\ Len(wlog[i].p) > 0 /\ wlog[j].p = wlog[i].p
    /\ wlog[i].err = "nil" /\ wlog[j].err = "nil"
    /\ wlog[i].sent = FrameLen(wlog[i].p) /\ wlog[j].sent = FrameLen(wlog[j].p)

\* what the frame of Write call i opens to under the writer's key
Opened(i) ==
    LET f == FrameOf(i)
    IN  Open(SubSeq(f, noncesz + 1, Len(f)), SubSeq(f, 1, noncesz), WriterKey)

Init ==
    /\ chunked = FALSE
    /\ faulted = FALSE
    /\ RWIdle
    /\ live = {1}
    /\ opsLeft = [c \in ConnIds |-> IF c = 1 THEN MaxOps ELSE 0]
    /\ serve = [pc |-> "start", priv |-> NoKey, pub |-> NoKey]
    /\ cli = [c \in ConnIds |-> CliIdle]
    /\ srv = [c \in ConnIds |-> SrvIdle]
    /\ c2s = [c \in ConnIds |-> <<>>]
    /\ s2c = [c \in ConnIds |-> <<>>]

\* one client per connection id
ServeInit ==
    /\ chunked = FALSE
    /\ faulted = FALSE
    /\ RWIdle
    /\ live = ConnIds
    /\ opsLeft = [c \in ConnIds |-> 0]
    /\ serve = [pc |-> "start", priv |-> NoKey, pub |-> NoKey]
    /\ cli = [c \in ConnIds |-> CliIdle]
    /\ srv = [c \in ConnIds |-> SrvIdle]
    /\ c2s = [c \in ConnIds |-> <<>>]
    /\ s2c = [c \in ConnIds |-> <<>>]

CliClosed(c) == cli[c].closes > 0
SrvClosed(c) == srv[c].closes > 0

\* the handshake's test of one key transfer: err != nil, then n != keysz
KeyXferFailsErrOnly(n, err) == err # "nil"
KeyXferFails(n, err) == err # "nil" \/ n # keysz

\* Dial's deferred closure closes the connection when its parameter e is not
\* nil; e was bound when the defer statement ran
DialDeferCloses(e) == e # "nil"

EchoDataShort(buf, n) == IF n > 0 THEN SubSeq(buf, 1, n - 1) ELSE <<>>

\* what the handler echoes: buf[:n], buf being the bytes Read copied into a
\* zeroed buffer
EchoData(buf, n) == [i \in 1..n |-> IF i <= Len(buf) THEN buf[i] ELSE 0]

\* Serve: box.GenerateKey, once, before the accept loop
ServeGenerateKey ==
    /\ serve.pc = "start"
    /\ \/ \E priv \in PrivKeys :
            /\ serve' = [pc |-> "accept", priv |-> priv, pub |-> PubOf(priv)]
            /\ UNCHANGED faulted
       \/ /\ ~faulted
          /\ faulted' = TRUE
          /\ serve' = [serve EXCEPT !.pc = "failed"]
    /\ UNCHANGED <<chunked, rwVars, live, opsLeft, cli, srv, c2s, s2c>>

ServeAcceptsInline(c) ==
    /\ serve.pc = "accept"
    /\ \A d \in ConnIds \ {c} : srv[d].pc \in {"none", "done"}

\* Serve is in l.Accept(): each handler runs in a goroutine of its own, so the
\* loop is back in Accept whatever the handlers of other connections do
ServeAccepts(c) == serve.pc = "accept"

\* Serve: l.Accept() returns connection c; go handleConnection(conn, priv, pub)
Accept(c) ==
    /\ ServeAccepts(c)
    /\ cli[c].pc \notin {"idle", "noconn"}
    /\ srv[c].pc = "none"
    /\ srv' = [srv EXCEPT ![c] = [@ EXCEPT !.pc = "wrkey", !.priv = serve.priv,
                                           !.pub = serve.pub]]
    /\ UNCHANGED <<envVars, rwVars, live, opsLeft, serve, cli, c2s, s2c>>

\* handleConnection: conn.Write(pub[:]) and its two tests
SrvWriteKey(c) ==
    /\ srv[c].pc = "wrkey"
    /\ \E o \in XWrite(keysz, FALSE, CliClosed(c), ~faulted) :
         /\ s2c' = [s2c EXCEPT ![c] = Put(@, SubSeq(KeyBytes(srv[c].pub), 1, o.n))]
         /\ faulted' = (faulted \/ o \in Faulty(keysz))
         /\ srv' = [srv EXCEPT ![c] =
                IF KeyXferFails(o.n, o.err)
                THEN [@ EXCEPT !.pc = "done", !.wrN = o.n, !.closes = @ + 1,
                               !.err = IF o.err # "nil" THEN o.err ELSE "ErrShortKey"]
                ELSE [@ EXCEPT !.pc = "rdkey", !.wrN = o.n]]
    /\ UNCHANGED <<chunked, rwVars, live, opsLeft, serve, cli, c2s>>

\* handleConnection: conn.Read(clipub[:]), its two tests, NewSecureReadWriter
SrvReadKey(c) ==
    /\ srv[c].pc = "rdkey"
    /\ \E r \in XRead(c2s[c], CliClosed(c), keysz, FALSE, ~faulted, chunked) :
         /\ c2s' = [c2s EXCEPT ![c] = r.rest]
         /\ faulted' = (faulted \/ r.err = "ErrIO")
         /\ srv' = [srv EXCEPT ![c] =
                IF KeyXferFails(r.n, r.err)
                THEN [@ EXCEPT !.pc = "done", !.rdN = r.n, !.closes = @ + 1,
                               !.err = IF r.err # "nil" THEN r.err ELSE "ErrShortKey"]
                ELSE [@ EXCEPT !.pc = "read", !.rdN = r.n, !.clipub = BytesKey(r.bytes),
                               !.wkey = Precompute(BytesKey(r.bytes), srv[c].priv),
                               !.rkey = Precompute(BytesKey(r.bytes), srv[c].priv)]]
    /\ UNCHANGED <<chunked, rwVars, live, opsLeft, serve, cli, s2c>>

SrvReadFailsNever(err) == FALSE

\* handleConnection's test of what swr.Read returned: err != nil && err != io.EOF
SrvReadFails(err) == err # "nil" /\ err # "EOF"

\* handleConnection: swr.Read(buf); on an error other than EOF it returns, and
\* the deferred swr.Close() runs
SrvRead(c) ==
    /\ srv[c].pc = "read"
    /\ \E r \in SRead(c2s[c], CliClosed(c), SrvBufSz, srv[c].rkey, chunked) :
         /\ c2s' = [c2s EXCEPT ![c] = r.rest]
         /\ srv' = [srv EXCEPT ![c] =
                IF SrvReadFails(r.err)
                THEN [@ EXCEPT !.pc = "done", !.reads = @ + 1, !.n = r.n,
                               !.err = r.err, !.rderr = r.err, !.closes = @ + 1]
                ELSE [@ EXCEPT !.pc = "echo", !.reads = @ + 1, !.n = r.n,
                               !.buf = r.data, !.rderr = r.err]]
    /\ UNCHANGED <<envVars, rwVars, live, opsLeft, serve, cli, s2c>>

\* handleConnection: swr.Write(buf[:n]), return, the deferred swr.Close()
SrvEcho(c) ==
    /\ srv[c].pc = "echo"
    /\ \E seed \in ConnSeeds :
         \E env \in NetWriteEnv(EchoData(srv[c].buf, srv[c].n), seed, FALSE,
                                CliClosed(c), FALSE) :
            LET p == EchoData(srv[c].buf, srv[c].n)
                w == SWrite(p, srv[c].wkey, env[1], env[2], env[3])
            IN  /\ s2c' = [s2c EXCEPT ![c] = @ \o w.out]
                /\ srv' = [srv EXCEPT ![c] = [@ EXCEPT !.pc = "done", !.writes = @ + 1,
                                                       !.n = w.n, !.err = w.err,
                                                       !.closes = @ + 1]]
    /\ UNCHANGED <<envVars, rwVars, live, opsLeft, serve, cli, c2s>>

\* Dial: net.Dial
DialConnect(c) ==
    /\ c \in live
    /\ cli[c].pc = "idle"
    /\ \/ /\ cli' = [cli EXCEPT ![c] = [@ EXCEPT !.pc = "rdkey"]]
          /\ UNCHANGED faulted
       \/ /\ ~faulted
          /\ faulted' = TRUE
          /\ cli' = [cli EXCEPT ![c] = [@ EXCEPT !.pc = "noconn", !.err = "ErrDial"]]
    /\ UNCHANGED <<chunked, rwVars, live, opsLeft, serve, srv, c2s, s2c>>

\* Dial: conn.Read(srvpub[:]) and its two tests; on failure Dial returns
\* (nil, err) and the deferred closure runs with the e it was given
DialReadKey(c) ==
    /\ cli[c].pc = "rdkey"
    /\ \E r \in XRead(s2c[c], SrvClosed(c), keysz, FALSE, ~faulted, chunked) :
         /\ s2c' = [s2c EXCEPT ![c] = r.rest]
         /\ faulted' = (faulted \/ r.err = "ErrIO")
         /\ cli' = [cli EXCEPT ![c] =
                IF KeyXferFails(r.n, r.err)
                THEN [@ EXCEPT !.pc = "failed", !.rdN = r.n,
                               !.err = IF r.err # "nil" THEN r.err ELSE "ErrShortKey",
                               !.closes = @ + (IF DialDeferCloses("nil") THEN 1 ELSE 0)]
                ELSE [@ EXCEPT !.pc = "wrkey", !.rdN = r.n, !.srvpub = BytesKey(r.bytes)]]
    /\ UNCHANGED <<chunked, rwVars, live, opsLeft, serve, srv, c2s>>

\* Dial: box.GenerateKey, conn.Write(pub[:]) and its two tests,
\* NewSecureReadWriter(conn, priv, &srvpub)
DialWriteKey(c) ==
    /\ cli[c].pc = "wrkey"
    /\ \/ /\ ~faulted
          /\ faulted' = TRUE
          /\ cli' = [cli EXCEPT ![c] =
                [@ EXCEPT !.pc = "failed", !.err = "ErrRand",
                          !.closes = @ + (IF DialDeferCloses("nil") THEN 1 ELSE 0)]]
          /\ UNCHANGED c2s
       \/ \E priv \in PrivKeys :
            \E o \in XWrite(keysz, FALSE, SrvClosed(c), ~faulted) :
               /\ c2s' = [c2s EXCEPT ![c] = Put(@, SubSeq(KeyBytes(PubOf(priv)), 1, o.n))]
               /\ faulted' = (faulted \/ o \in Faulty(keysz))
               /\ cli' = [cli EXCEPT ![c] =
                    IF KeyXferFails(o.n, o.err)
                    THEN [@ EXCEPT !.pc = "failed", !.priv = priv, !.wrN = o.n,
                                   !.err = IF o.err # "nil" THEN o.err ELSE "ErrShortKey",
                                   !.closes = @ + (IF DialDeferCloses("nil") THEN 1 ELSE 0)]
                    ELSE [@ EXCEPT !.pc = "ready", !.priv = priv, !.wrN = o.n,
                                   !.wkey = Precompute(cli[c].srvpub, priv),
                                   !.rkey = Precompute(cli[c].srvpub, priv)]]
    /\ UNCHANGED <<chunked, rwVars, live, opsLeft, serve, srv, s2c>>

\* a client calls Write(p), p in P, on the channel: secureReadWriter.Write
ChanWrite(c, P) ==
    \E p \in P, seed \in ConnSeeds :
       \E env \in NetWriteEnv(p, seed, CliClosed(c), SrvClosed(c), FALSE) :
          LET w == SWrite(p, cli[c].wkey, env[1], env[2], env[3])
          IN  /\ c2s' = [c2s EXCEPT ![c] = @ \o w.out]
              /\ cli' = [cli EXCEPT ![c] = [@ EXCEPT !.log = Append(@,
                     [op |-> "Write", p |-> p, cap |-> 0, n |-> w.n, err |-> w.err,
                      data |-> <<>>])]]

\* a client calls Read(buf), len(buf) in C, on the channel: secureReadWriter.Read
ChanRead(c, C) ==
    \E cap \in C :
       \E r \in (IF CliClosed(c) /\ cap > 0
                 THEN {[n |-> 0, err |-> "ErrClosed", data |-> <<>>, rest |-> s2c[c],
                        used |-> 0]}
                 ELSE SRead(s2c[c], SrvClosed(c), cap, cli[c].rkey, chunked)) :
          /\ s2c' = [s2c EXCEPT ![c] = r.rest]
          /\ cli' = [cli EXCEPT ![c] = [@ EXCEPT !.log = Append(@,
                 [op |-> "Read", p |-> <<>>, cap |-> cap, n |-> r.n, err |-> r.err,
                  data |-> r.data])]]

\* an application (the tests' client) calls Write on the channel Dial returned
AppWrite(c) ==
    /\ cli[c].pc = "ready"
    /\ opsLeft[c] > 0
    /\ ChanWrite(c, AppPlain)
    /\ opsLeft' = [opsLeft EXCEPT ![c] = @ - 1]
    /\ UNCHANGED <<envVars, rwVars, live, serve, srv, s2c>>

\* an application calls Read on the channel
AppRead(c) ==
    /\ cli[c].pc = "ready"
    /\ opsLeft[c] > 0
    /\ ChanRead(c, AppCaps)
    /\ opsLeft' = [opsLeft EXCEPT ![c] = @ - 1]
    /\ UNCHANGED <<envVars, rwVars, live, serve, srv, c2s>>

\* the client calls Close() on the channel: secureReadWriter.Close
AppClose(c) ==
    /\ cli[c].pc = "ready"
    /\ opsLeft[c] > 0
    /\ cli' = [cli EXCEPT ![c] = [@ EXCEPT
           !.closes = @ + 1,
           !.log = Append(@, [op |-> "Close", p |-> <<>>, cap |-> 0, n |-> 0,
                              err |-> IF CliClosed(c) THEN "ErrClosed" ELSE "nil",
                              data |-> <<>>])]]
    /\ opsLeft' = [opsLeft EXCEPT ![c] = @ - 1]
    /\ UNCHANGED <<envVars, rwVars, live, serve, srv, c2s, s2c>>

Next ==
    \/ ServeGenerateKey
    \/ \E c \in ConnIds :
          \/ Accept(c) \/ SrvWriteKey(c) \/ SrvReadKey(c) \/ SrvRead(c) \/ SrvEcho(c)
          \/ DialConnect(c) \/ DialReadKey(c) \/ DialWriteKey(c)
          \/ AppWrite(c) \/ AppRead(c) \/ AppClose(c)

Spec == Init /\ [][Next]_vars

\* main, client mode: conn.Write(msg); any error is fatal and the process exits
MainWrite(c) ==
    /\ cli[c].pc = "ready"
    /\ cli[c].log = <<>>
    /\ ChanWrite(c, AppPlain \ {<<>>})
    /\ UNCHANGED <<envVars, rwVars, live, opsLeft, serve, srv, s2c>>

\* main, client mode: conn.Read(buf) with len(buf) = len(msg), print, exit
MainRead(c) ==
    /\ cli[c].pc = "ready"
    /\ Len(cli[c].log) = 1
    /\ cli[c].log[1].err = "nil"
    /\ ChanRead(c, {Len(cli[c].log[1].p)})
    /\ UNCHANGED <<envVars, rwVars, live, opsLeft, serve, srv, c2s>>

ServeNext ==
    \/ ServeGenerateKey
    \/ \E c \in ConnIds :
          \/ Accept(c) \/ SrvWriteKey(c) \/ SrvReadKey(c) \/ SrvRead(c) \/ SrvEcho(c)
          \/ DialConnect(c) \/ DialReadKey(c) \/ DialWriteKey(c)
          \/ MainWrite(c) \/ MainRead(c)

SpecServe == ServeInit /\ [][ServeNext]_vars

\* one client whose transport may fail once under a Write on the channel
HandlerInit ==
    /\ chunked = FALSE
    /\ faulted = FALSE
    /\ RWIdle
    /\ live = {1}
    /\ opsLeft = [c \in ConnIds |-> IF c = 1 THEN MaxFaultCalls ELSE 0]
    /\ serve = [pc |-> "start", priv |-> NoKey, pub |-> NoKey]
    /\ cli = [c \in ConnIds |-> CliIdle]
    /\ srv = [c \in ConnIds |-> SrvIdle]
    /\ c2s = [c \in ConnIds |-> <<>>]
    /\ s2c = [c \in ConnIds |-> <<>>]

\* the client calls Write on the channel, and the connection may take only a
\* part of the frame or fail
AppWriteFaulty(c) ==
    /\ cli[c].pc = "ready"
    /\ opsLeft[c] > 0
    /\ \E p \in AppPlain, seed \in ConnSeeds :
         \E env \in NetWriteEnv(p, seed, CliClosed(c), SrvClosed(c), ~faulted) :
            LET w == SWrite(p, cli[c].wkey, env[1], env[2], env[3])
            IN  /\ c2s' = [c2s EXCEPT ![c] = @ \o w.out]
                /\ faulted' = (faulted \/ IsFault(env, p))
                /\ cli' = [cli EXCEPT ![c] = [@ EXCEPT !.log = Append(@,
                       [op |-> "Write", p |-> p, cap |-> 0, n |-> w.n, err |-> w.err,
                        data |-> <<>>])]]
    /\ opsLeft' = [opsLeft EXCEPT ![c] = @ - 1]
    /\ UNCHANGED <<chunked, rwVars, live, serve, srv, s2c>>

HandlerNext ==
    \/ ServeGenerateKey
    \/ \E c \in ConnIds :
          \/ Accept(c) \/ SrvWriteKey(c) \/ SrvReadKey(c) \/ SrvRead(c) \/ SrvEcho(c)
          \/ DialConnect(c) \/ DialReadKey(c) \/ DialWriteKey(c)
          \/ AppWriteFaulty(c) \/ AppClose(c)

SpecHandler == HandlerInit /\ [][HandlerNext]_vars

\* Serve: l.Accept() returns an error (the listener failed) and Serve returns it
AcceptFails ==
    /\ serve.pc = "accept"
    /\ ~faulted
    /\ faulted' = TRUE
    /\ serve' = [serve EXCEPT !.pc = "failed"]
    /\ UNCHANGED <<chunked, rwVars, live, opsLeft, cli, srv, c2s, s2c>>

ConcurrentNext ==
    \/ ServeGenerateKey
    \/ AcceptFails
    \/ \E c \in ConnIds :
          \/ Accept(c) \/ SrvWriteKey(c) \/ SrvReadKey(c) \/ SrvRead(c) \/ SrvEcho(c)
          \/ DialConnect(c) \/ DialReadKey(c) \/ DialWriteKey(c)
          \/ MainWrite(c) \/ MainRead(c)

\* a step of Serve, of a handler goroutine, or of the client of connection 2
ServerOrClient2 ==
    \/ ServeGenerateKey
    \/ \E c \in ConnIds :
          \/ Accept(c) \/ SrvWriteKey(c) \/ SrvReadKey(c) \/ SrvRead(c) \/ SrvEcho(c)
    \/ DialConnect(2) \/ DialReadKey(2) \/ DialWriteKey(2)
    \/ MainWrite(2) \/ MainRead(2)

\* Serve, the handler goroutines and the client of connection 2 have come to
\* rest: none of them has a call that can return. The client of connection 1
\* may have stopped anywhere
AtRest == ~ENABLED ServerOrClient2

SpecConcurrent == ServeInit /\ [][ConcurrentNext]_vars

\* the handshakes alone: Serve, the handlers up to NewSecureReadWriter, and one
\* Dial per connection
HandshakeNext ==
    \/ ServeGenerateKey
    \/ \E c \in ConnIds :
          \/ Accept(c) \/ SrvWriteKey(c) \/ SrvReadKey(c)
          \/ DialConnect(c) \/ DialReadKey(c) \/ DialWriteKey(c)

\* Serve, every handler goroutine and every Dial keep running: while one of
\* them has a call that can return, one of them takes a step (each takes
\* finitely many)
HandshakeFair == WF_vars(HandshakeNext)

SpecHandshake == ServeInit /\ [][HandshakeNext]_vars /\ HandshakeFair

\* ------------------------------------------------------------ claims on
\* Dial, Serve and the channel

\* the server wrote its whole key before it read; the client read the whole
\* server key before it generated or wrote its own
HandshakeOrder(c) ==
    /\ srv[c].rdN # -1 => srv[c].wrN = keysz
    /\ (cli[c].priv # NoKey \/ cli[c].wrN # -1) => cli[c].rdN = keysz

\* both sides are through the handshake and each holds the other's public key
HandshakeDone(c) ==
    /\ cli[c].pc = "ready" /\ srv[c].pc = "read"
    /\ cli[c].srvpub = srv[c].pub
    /\ srv[c].clipub = PubOf(cli[c].priv)

ConnFailed(c) == cli[c].err # "nil" \/ srv[c].err # "nil"

\* the client of connection c wrote a message and read it back
Echoed(c) ==
    /\ Len(cli[c].log) = 2
    /\ cli[c].log[1].err = "nil" /\ cli[c].log[2].err = "nil"
    /\ cli[c].log[2].data = cli[c].log[1].p
    /\ srv[c].pc = "done"

\* C20: connections are handled independently. One failure never fails both
\* connections; when a connection has failed, Serve has not returned; and
\* whatever connection 1 does (its client may stall at any point, so that its
\* handler blocks, or it may fail), connection 2, whose client keeps going,
\* has been accepted and has got its echo by the time Serve, the handlers and
\* that client come to rest, unless connection 2 itself met the failure or
\* Serve's own key generation or listener failed.
C20_ConnectionsIndependent ==
    /\ ~(ConnFailed(1) /\ ConnFailed(2))
    /\ \A c \in ConnIds : ConnFailed(c) => serve.pc # "failed"
    /\ AtRest => (Echoed(2) \/ ConnFailed(2) \/ serve.pc = "failed")

\* the client of connection 1 failed in its handshake and left the handler
\* of connection 1 waiting for a key for ever; Serve is still accepting, and
\* connection 2 got its echo
C20_Witness ==
    /\ srv[1].pc = "rdkey" /\ cli[1].pc = "failed"
    /\ serve.pc = "accept"
    /\ AtRest
    /\ Echoed(2) /\ Len(cli[2].log[1].p) = MaxLen

\* Dial returned a channel and handleConnection constructed its own
BothChannels(c) == cli[c].pc = "ready" /\ srv[c].rkey # NoKey

\* C13: once both sides are through the handshake, the client's channel and
\* the server's channel hold the same shared key, and in each channel the
\* reader and the writer hold that key.
C13_ChannelsShareOneKey ==
    \A c \in ConnIds :
        BothChannels(c) =>
            /\ cli[c].wkey # NoKey
            /\ cli[c].wkey = srv[c].rkey /\ srv[c].wkey = cli[c].rkey
            /\ cli[c].rkey = cli[c].wkey /\ srv[c].rkey = srv[c].wkey
            /\ cli[c].wkey = Precompute(srv[c].pub, cli[c].priv)
            /\ srv[c].wkey = Precompute(PubOf(cli[c].priv), srv[c].priv)

C13_Witness ==
    \E c \in ConnIds :
        /\ BothChannels(c)
        /\ cli[c].priv # srv[c].priv
        /\ cli[c].wkey = srv[c].rkey
        /\ srv[c].pc = "done" /\ srv[c].err = "nil" /\ srv[c].n = MaxLen


IsWrite(e) == e.op = "Write" /\ Len(e.p) > 0
IsRead(e) == e.op = "Read"

\* the client's first two calls on its channel were Write(M), M not empty, and
\* Read into a buffer that holds M, and nothing was made to fail
OneExchange(c) ==
    /\ ~faulted
    /\ Len(cli[c].log) >= 2
    /\ IsWrite(cli[c].log[1])
    /\ IsRead(cli[c].log[2]) /\ cli[c].log[2].cap >= Len(cli[c].log[1].p)

\* ... and the first exchange returned M, and the next two calls were
\* Write(M2), M2 not empty, and Read into a buffer that holds M2
TwoExchanges(c) ==
    /\ OneExchange(c)
    /\ cli[c].log[2].err = "nil" /\ cli[c].log[2].data = cli[c].log[1].p
    /\ Len(cli[c].log) >= 4
    /\ IsWrite(cli[c].log[3])
    /\ IsRead(cli[c].log[4]) /\ cli[c].log[4].cap >= Len(cli[c].log[3].p)

\* C1: after one handshake, a client that writes a message, reads its echo,
\* writes a second message and reads again gets the second message back
\* unchanged, with no error.
C1_SecondExchangeEchoed ==
    \A c \in ConnIds :
        TwoExchanges(c) =>
            /\ cli[c].log[3].err = "nil"
            /\ cli[c].log[4].err = "nil"
            /\ cli[c].log[4].data = cli[c].log[3].p

\* C2: a client that Dials, writes one non-empty M and reads into a buffer of
\* at least len(M) bytes reads exactly M, and neither Dial, the Write, the
\* Read nor handleConnection reports an error.
C2_EchoReturnsM ==
    \A c \in ConnIds :
        OneExchange(c) =>
            /\ cli[c].err = "nil"
            /\ cli[c].log[1].err = "nil" /\ cli[c].log[1].n = Len(cli[c].log[1].p)
            /\ cli[c].log[2].err = "nil" /\ cli[c].log[2].n = Len(cli[c].log[1].p)
            /\ cli[c].log[2].data = cli[c].log[1].p
            /\ srv[c].err = "nil"

C2_Witness ==
    \E c \in ConnIds :
        /\ OneExchange(c)
        /\ Len(cli[c].log[1].p) = MaxLen
        /\ cli[c].log[2].data = cli[c].log[1].p
        /\ srv[c].pc = "done"

Short(n) == n \in 0..(keysz - 1)

\* C3: a side whose read or write of a public key moved fewer than keysz bytes
\* fails its handshake and constructs no channel: Dial returns an error and no
\* channel; handleConnection returns without NewSecureReadWriter and makes no
\* encrypted read or write.
C3_ShortKeyNoChannel ==
    \A c \in ConnIds :
        /\ (Short(cli[c].rdN) \/ Short(cli[c].wrN)) =>
              /\ cli[c].pc = "failed" /\ cli[c].err # "nil"
              /\ cli[c].rkey = NoKey /\ cli[c].wkey = NoKey
              /\ cli[c].log = <<>>
        /\ (Short(srv[c].rdN) \/ Short(srv[c].wrN)) =>
              /\ srv[c].pc = "done" /\ srv[c].err # "nil"
              /\ srv[c].rkey = NoKey /\ srv[c].wkey = NoKey
              /\ srv[c].reads = 0 /\ srv[c].writes = 0

\* the server's key write reported a short count without an error, so that the
\* client's key read was short without an error too
C3_Witness ==
    \E c \in ConnIds :
        /\ cli[c].rdN \in 1..(keysz - 1) /\ cli[c].err = "ErrShortKey"
        /\ cli[c].pc = "failed"
        /\ srv[c].wrN = cli[c].rdN /\ srv[c].err = "ErrShortKey"
        /\ srv[c].pc = "done"

\* C4: when a handshake aborts, the connection is closed by the time the
\* handshake operation returns, in Dial as in handleConnection.
C4_AbortedHandshakeClosesConn ==
    \A c \in ConnIds :
        /\ cli[c].pc = "failed" => CliClosed(c)
        /\ (srv[c].pc = "done" /\ srv[c].rkey = NoKey) => SrvClosed(c)

\* C5: no two connections accepted by one Serve call use the same server
\* private key or are sent the same server public key.
C5_FreshServerKeyPerConn ==
    \A c1, c2 \in ConnIds :
        (c1 # c2 /\ srv[c1].pc # "none" /\ srv[c2].pc # "none") =>
            /\ srv[c1].priv # srv[c2].priv
            /\ srv[c1].pub # srv[c2].pub

\* C7: every Read or Write on a channel after Close fails (here: on a
\* connection where nothing else was made to fail).
C7_NoCallSucceedsAfterClose ==
    \A c \in ConnIds :
        \A i, j \in DOMAIN cli[c].log :
            (/\ ~faulted
             /\ i < j
             /\ cli[c].log[i].op = "Close"
             /\ cli[c].log[j].op \in {"Read", "Write"})
                => cli[c].log[j].err # "nil"
====
